---- MODULE Spec2Model ----
(***************************************************************************)
(* A model of piep (src/piep.c): a command-line program that negotiates an *)
(* ALSA playback device, synthesizes one period of a sine wave (the        *)
(* "clip") and writes that clip to the device forever, recovering from     *)
(* buffer underrun and stream suspension.                                  *)
(*                                                                         *)
(* The program is one thread; pc is its position in main().  Every call   *)
(* into libasound, getopt and sleep is one action.  What the library and   *)
(* the device answer is chosen nondeterministically.                       *)
(*                                                                         *)
(* Arithmetic.  The program computes in float.  The model computes with    *)
(* exact fractions <<numerator, denominator>>.  The device rates of the    *)
(* model are powers of two and the frequencies are small dyadic numbers,   *)
(* so every float operation of lines 126-128 is exact on the model's       *)
(* inputs and the fractions are the floats.  sinf is a table of its values *)
(* at the 64th parts of a turn, reached by reducing the phase modulo one   *)
(* turn; the float rounding of a phase of many turns (which can move a    *)
(* sample by a unit or more once the phase is some tens of turns) is not   *)
(* modelled.  The option arguments of the model hold digits, a point and   *)
(* letters: signs, exponents, inf and nan are not among the inputs.        *)
(***************************************************************************)
EXTENDS Integers, Sequences, FiniteSets, TLC

\* ------------------------------------------------------------- bounds

\* The longest command line, in options.
MaxArgs == 3
\* The device rates are 2^0 .. 2^MaxRateExp Hz.
MaxRateExp == 2
\* The largest period size the device hands back, in frames.
MaxPeriod == 3
\* How many writes in a run may report underrun.
MaxUnderruns == 1
\* How many writes in a run may report a suspended stream.
MaxSuspends == 1
\* How many times in a row resume may answer try-again.
MaxNotYet == 2
\* The longest command line of the runs checked under fairness, in options.
MaxFairArgs == 1

\* ---------------------------------------------------------- constants

EXIT_SUCCESS == 0
EXIT_FAILURE == 1
EAGAIN == 11
EPIPE == 32
ESTRPIPE == 86
\* Errors that no branch of the program singles out (EIO, ENODEV).
OtherErrnos == {5, 19}
\* Every negative result a library call may give.
NegResults == {-e : e \in {EAGAIN, EPIPE, ESTRPIPE} \cup OtherErrnos}

\* ---------------------------------------------------------- fractions

Abs(x) == IF x < 0 THEN -x ELSE x

RECURSIVE GCD(_, _)
GCD(a, b) == IF b = 0 THEN a ELSE GCD(b, a % b)

\* The fraction n/d in lowest terms with a positive denominator.  n/0 (the
\* float inf or NaN) is kept as <<n, 0>>.
Frac(n, d) ==
    IF d = 0 THEN <<n, 0>>
    ELSE LET g == GCD(Abs(n), Abs(d))
             s == IF d < 0 THEN -1 ELSE 1
         IN  <<s * (n \div g), s * (d \div g)>>

FMul(x, y) == Frac(x[1] * y[1], x[2] * y[2])

FDiv(x, y) == Frac(x[1] * y[2], x[2] * y[1])

FSub(x, y) == Frac(x[1] * y[2] - y[1] * x[2], x[2] * y[2])

FAbs(x) == <<Abs(x[1]), x[2]>>

\* x <= y, for denominators > 0.
FLeq(x, y) == x[1] * y[2] <= y[1] * x[2]

FInt(n) == <<n, 1>>

IsInteger(x) == x[2] = 1

\* roundf: to the nearest integer, halves away from zero.
roundf(x) ==
    IF x[2] = 0 THEN 0
    ELSE LET m == (2 * Abs(x[1]) + x[2]) \div (2 * x[2])
         IN  IF x[1] < 0 THEN -m ELSE m

\* ------------------------------------------------------ strtod, strtol

\* An option argument is a sequence of characters.
Digits == {"0", "1", "2", "5"}

DigitVal(c) == CASE c = "0" -> 0 [] c = "1" -> 1 [] c = "2" -> 2 [] c = "5" -> 5

\* How many characters of s, from position p on, are digits.
RECURSIVE DigitRun(_, _)
DigitRun(s, p) ==
    IF p <= Len(s) /\ s[p] \in Digits THEN 1 + DigitRun(s, p + 1) ELSE 0

\* The decimal number written by the n digits of s that start at position p.
RECURSIVE DigitsVal(_, _, _)
DigitsVal(s, p, n) ==
    IF n = 0 THEN 0 ELSE 10 * DigitsVal(s, p, n - 1) + DigitVal(s[p + n - 1])

RECURSIVE Pow10(_)
Pow10(n) == IF n = 0 THEN 1 ELSE 10 * Pow10(n - 1)

\* strtod(s, &endptr): the longest prefix digits [. digits] holding a digit
\* is converted; endptr is the number of characters used, 0 when nothing
\* was converted (endptr == optarg).
strtod(s) ==
    LET a == DigitRun(s, 1)
        dot == a + 1 <= Len(s) /\ s[a + 1] = "."
        b == IF dot THEN DigitRun(s, a + 2) ELSE 0
    IN  IF a = 0 /\ b = 0 THEN [value |-> FInt(0), endptr |-> 0]
        ELSE [value |-> Frac(DigitsVal(s, 1, a) * Pow10(b) + DigitsVal(s, a + 2, b),
                             Pow10(b)),
              endptr |-> IF dot THEN a + 1 + b ELSE a]

\* strtol(s, &endptr, 10): the longest prefix of digits is converted.
strtol(s) ==
    LET a == DigitRun(s, 1) IN [value |-> DigitsVal(s, 1, a), endptr |-> a]

\* ------------------------------------------------------------ the sine

\* sinf at j/64 of a turn, j = 0 .. 63, in units of 2^-24.
SinQ24 ==
    <<0, 1644455, 3273072, 4870169, 6420363, 7908725, 9320922, 10643353,
      11863283, 12968963, 13949745, 14796184, 15500126, 16054795, 16454846, 16696429,
      16777216, 16696429, 16454846, 16054795, 15500126, 14796184, 13949745, 12968963,
      11863283, 10643353, 9320922, 7908725, 6420363, 4870169, 3273072, 1644455,
      0, -1644455, -3273072, -4870169, -6420363, -7908725, -9320922, -10643353,
      -11863283, -12968963, -13949745, -14796184, -15500126, -16054795, -16454846, -16696429,
      -16777216, -16696429, -16454846, -16054795, -15500126, -14796184, -13949745, -12968963,
      -11863283, -10643353, -9320922, -7908725, -6420363, -4870169, -3273072, -1644455>>

\* The phase (float) i / (float) rate_hz * frequency_hz * 2.0 * PI of line
\* 135, in 64th parts of a turn, modulo one turn.
Phase64(i, rate, freq) ==
    LET t == FMul(FMul(Frac(i, rate), freq), FInt(64))
    IN  IF t[2] = 0 THEN 0 ELSE (t[1] \div t[2]) % 64

sinf(i, rate, freq) == SinQ24[Phase64(i, rate, freq) + 1]

\* The scale of line 136.
FullScale == 32767

\* (sample) (sin * scale): the product of a sine in units of 2^-24 and the
\* scale, truncated toward zero by the conversion to int16_t.  The product
\* is formed in two 12-bit limbs to stay below 2^31.
ToSample(q, scale) ==
    LET a == Abs(q)
        m == ((a \div 4096) * scale + ((a % 4096) * scale) \div 4096) \div 4096
    IN  IF q < 0 THEN -m ELSE m

\* The product of a sine in units of 2^-24 and the scale, rounded to the
\* nearest integer (a half away from zero), in the same two limbs.
RoundToSample(q, scale) ==
    LET a == Abs(q)
        m == ((a \div 4096) * scale + ((a % 4096) * scale + 8388608) \div 4096) \div 4096
    IN  IF q < 0 THEN -m ELSE m

\* The sample rounded to the nearest integer.
SampleAt_Rounded(i, rate, freq) == RoundToSample(sinf(i, rate, freq), FullScale)

\* The sample scaled by 0x8000.
SampleAt_Scale8000(i, rate, freq) == ToSample(sinf(i, rate, freq), FullScale + 1)

\* The sample of a cosine: the phase a quarter turn ahead.
SampleAt_Cosine(i, rate, freq) ==
    ToSample(SinQ24[((Phase64(i, rate, freq) + 16) % 64) + 1], FullScale)

\* Lines 135-136: the sample at index i.
SampleAt(i, rate, freq) == ToSample(sinf(i, rate, freq), FullScale)

\* Lines 134-137: the clip, clip[i] of the program at position i + 1.
FillClip(frames, rate, freq) == [i \in 1..frames |-> SampleAt(i - 1, rate, freq)]

\* ------------------------------------------------------------ the state

VARIABLES
    pc,                \* the position in main()
    args,              \* the options getopt has not yet returned
    opt,               \* line 51: what getopt returned last ("-1": the end)
    optarg,            \* getopt's optarg (<<>>: NULL)
    device,            \* line 45
    frequency_hz,      \* line 46, a fraction
    rate_hz,           \* line 47
    verbose,           \* line 48
    clip_size_frames,  \* line 118
    clip_time_s,       \* line 126, a fraction
    waves_per_clip,    \* line 127, a fraction
    clip,              \* line 121, the samples
    result,            \* line 140
    err,               \* line 151
    exit_status,       \* <<>> while the process runs, <<code>> once it has exited
    hw,                \* the device: whether it is open and what it negotiated
    requested,         \* history: frequency_hz and rate_hz as the command line set them
    bad_seen,          \* history: getopt returned -f or -r with an argument that holds no number
    opens,             \* history: the calls of snd_pcm_open
    last_op,           \* history: the last library call and its result
    tot,               \* history: counts over the run
    epi,               \* history: counts since the last snd_pcm_writei
    setup,             \* history: the library calls of lines 88-119 and their results
    beat,              \* history: the parity of the number of steps of the playback loop
    stream             \* history: the frames the device has accepted, against the clip repeated,
                       \* up to the first underrun or suspension

vars == <<pc, args, opt, optarg, device, frequency_hz, rate_hz, verbose,
          clip_size_frames, clip_time_s, waves_per_clip, clip, result, err,
          exit_status, hw, requested, bad_seen, opens, last_op, tot, epi, setup,
          beat, stream>>

parsed == <<device, frequency_hz, rate_hz, verbose>>
synthesized == <<clip_size_frames, clip_time_s, waves_per_clip, clip>>
counted == <<tot, epi, beat, stream>>

\* ------------------------------------------------------------ the input

\* Option arguments: "0", "1", "2.5", "x" (no number), "1x" (a number, then
\* something else).
ArgStrings == {<<"0">>, <<"1">>, <<"2", ".", "5">>, <<"x">>, <<"1", "x">>}

DeviceArgs == {<<"h", "w">>}

NULL == <<>>

\* What getopt(argc, argv, "d:hf:r:v") can return, with optarg.  "?" is an
\* unknown option or a missing argument.
Options ==
    {[opt |-> "d", arg |-> s] : s \in DeviceArgs}
    \cup {[opt |-> o, arg |-> s] : o \in {"f", "r"}, s \in ArgStrings}
    \cup {[opt |-> o, arg |-> NULL] : o \in {"h", "v", "?"}}

CommandLines == UNION {[1..n -> Options] : n \in 0..MaxArgs}

\* The rates the device may settle on.
RECURSIVE Pow2(_)
Pow2(n) == IF n = 0 THEN 1 ELSE 2 * Pow2(n - 1)

DeviceRates == {Pow2(k) : k \in 0..MaxRateExp}

NoOp == [op |-> "none", res |-> 0, buf |-> <<>>, start |-> 0, frames |-> 0]

Init ==
    /\ pc = "getopt"
    /\ args \in CommandLines
    /\ opt = "none"
    /\ optarg = NULL
    /\ device = <<"d", "e", "f", "a", "u", "l", "t">>
    /\ frequency_hz = FInt(440)
    /\ rate_hz = 44100
    /\ verbose = FALSE
    /\ clip_size_frames = 0
    /\ clip_time_s = FInt(0)
    /\ waves_per_clip = FInt(0)
    /\ clip = <<>>
    /\ result = 0
    /\ err = 0
    /\ exit_status = <<>>
    /\ hw = [open |-> FALSE, rate |-> 0, period_size |-> 0]
    /\ requested = [frequency_hz |-> FInt(440), rate_hz |-> 44100]
    /\ bad_seen = FALSE
    /\ opens = 0
    /\ last_op = NoOp
    /\ tot = [prepares |-> 0, underruns |-> 0, suspends |-> 0]
    /\ epi = [prepares |-> 0, notyets |-> 0, sleeps |-> 0]
    /\ setup = <<>>
    /\ beat = 0
    /\ stream = [pos |-> 0, ok |-> TRUE]

\* ------------------------------------------------------- leaving main

\* return code, or exit(code).
Exit(code) ==
    /\ pc' = "exited"
    /\ exit_status' = <<code>>

\* ABORT leaving with the status of success.
AbortStatus_Success == EXIT_SUCCESS

\* Line 16: the status ABORT exits with.
AbortStatus == EXIT_FAILURE

\* Lines 13-17.
Abort == Exit(AbortStatus)

\* A library call that takes no buffer, and its result.
Call(fn, res) == [op |-> fn, res |-> res, buf |-> <<>>, start |-> 0, frames |-> 0]

\* ------------------------------------------------- lines 50-86: options

\* The check of endptr left out.
NothingConverted_Unchecked(endptr) == FALSE

\* Lines 62 and 73: endptr == optarg.
NothingConverted(endptr) == endptr = 0

\* The open of the device inside the block of -v: without -v the program
\* goes straight to the negotiation.
AfterOptions_OpenInsideVerbose(v) == IF v THEN "attach" ELSE "hw_params_any"

\* Lines 88-93: where the program goes when the options are done.
AfterOptions(v) == IF v THEN "attach" ELSE "open"

\* getopt returns the next option.
Getopt(o) ==
    /\ pc = "getopt"
    /\ args # <<>>
    /\ Head(args).opt = o
    /\ opt' = o
    /\ optarg' = Head(args).arg
    /\ args' = Tail(args)

\* Lines 52-54: no option is left.
OptEnd ==
    /\ pc = "getopt"
    /\ args = <<>>
    /\ opt' = "-1"
    /\ optarg' = NULL
    /\ requested' = [frequency_hz |-> frequency_hz, rate_hz |-> rate_hz]
    /\ pc' = AfterOptions(verbose)
    /\ UNCHANGED <<args, parsed, synthesized, result, err, exit_status, hw,
                   bad_seen, opens, last_op, setup, counted>>

\* Lines 57-59.
OptDevice ==
    /\ Getopt("d")
    /\ device' = optarg'
    /\ UNCHANGED <<pc, frequency_hz, rate_hz, verbose, synthesized, result, err,
                   exit_status, hw, requested, bad_seen, opens, last_op, setup, counted>>

\* Lines 60-67.
OptFrequency ==
    /\ Getopt("f")
    /\ LET r == strtod(optarg')
       IN  /\ frequency_hz' = r.value
           /\ bad_seen' = (bad_seen \/ r.endptr = 0)
           /\ IF NothingConverted(r.endptr)
              THEN Exit(EXIT_FAILURE)
              ELSE UNCHANGED <<pc, exit_status>>
    /\ UNCHANGED <<device, rate_hz, verbose, synthesized, result, err, hw,
                   requested, opens, last_op, setup, counted>>

\* Lines 68-70.
OptHelp ==
    /\ Getopt("h")
    /\ Exit(EXIT_SUCCESS)
    /\ UNCHANGED <<parsed, synthesized, result, err, hw, requested, bad_seen,
                   opens, last_op, setup, counted>>

\* Lines 71-78.
OptRate ==
    /\ Getopt("r")
    /\ LET r == strtol(optarg')
       IN  /\ rate_hz' = r.value
           /\ bad_seen' = (bad_seen \/ r.endptr = 0)
           /\ IF NothingConverted(r.endptr)
              THEN Exit(EXIT_FAILURE)
              ELSE UNCHANGED <<pc, exit_status>>
    /\ UNCHANGED <<device, frequency_hz, verbose, synthesized, result, err, hw,
                   requested, opens, last_op, setup, counted>>

\* Lines 79-81.
OptVerbose ==
    /\ Getopt("v")
    /\ verbose' = TRUE
    /\ UNCHANGED <<pc, device, frequency_hz, rate_hz, synthesized, result, err,
                   exit_status, hw, requested, bad_seen, opens, last_op, setup, counted>>

\* Lines 82-84.
OptUnknown ==
    /\ Getopt("?")
    /\ Exit(EXIT_FAILURE)
    /\ UNCHANGED <<parsed, synthesized, result, err, hw, requested, bad_seen,
                   opens, last_op, setup, counted>>

\* ------------------------------------------- lines 88-119: the device

\* CHECKED without the check: the program goes on whatever the answer.
Checked_Ignored(here, fn, res, next) ==
    /\ pc = here
    /\ last_op' = Call(fn, res)
    /\ pc' = next
    /\ UNCHANGED exit_status

\* Lines 19-25: CHECKED(fn, ...) at position here, with the library's
\* answer res; on success the program goes on at position next.
Checked(here, fn, res, next) ==
    /\ pc = here
    /\ last_op' = Call(fn, res)
    /\ IF res < 0
       THEN Abort
       ELSE /\ pc' = next
            /\ UNCHANGED exit_status

\* The answers of a call the program only checks for an error.
Answers == {0} \cup NegResults

\* Lines 89-91, reached with -v only.
AttachOutput ==
    /\ \E res \in Answers : Checked("attach", "snd_output_stdio_attach", res, "open")
    /\ setup' = Append(setup, last_op')
    /\ UNCHANGED <<args, opt, optarg, parsed, synthesized, result, err, hw,
                   requested, bad_seen, opens, counted>>

\* Lines 93-98.
Open ==
    /\ \E res \in Answers :
          /\ Checked("open", "snd_pcm_open", res, "hw_params_any")
          /\ hw' = [hw EXCEPT !.open = (res >= 0)]
    /\ opens' = opens + 1
    /\ setup' = Append(setup, last_op')
    /\ UNCHANGED <<args, opt, optarg, parsed, synthesized, result, err,
                   requested, bad_seen, counted>>

\* A negotiation step that hands nothing back to the program.
Negotiate(here, fn, next) ==
    /\ \E res \in Answers : Checked(here, fn, res, next)
    /\ setup' = Append(setup, last_op')
    /\ UNCHANGED <<args, opt, optarg, parsed, synthesized, result, err, hw,
                   requested, bad_seen, opens, counted>>

\* Line 104.
HwParamsAny ==
    /\ pc = "hw_params_any"
    /\ Negotiate("hw_params_any", "snd_pcm_hw_params_any", "set_format")

\* Line 105.
SetFormat ==
    /\ pc = "set_format"
    /\ Negotiate("set_format", "snd_pcm_hw_params_set_format", "set_channels")

\* Line 106.
SetChannels ==
    /\ pc = "set_channels"
    /\ Negotiate("set_channels", "snd_pcm_hw_params_set_channels", "set_rate_near")

\* The rate the device chose dropped: the program keeps the rate it asked for.
RateAfterSetRateNear_Asked(asked, chosen) == asked

\* Line 107: the rate argument is in and out; what the program holds in
\* rate_hz after the call, given what it asked for and what the device chose.
RateAfterSetRateNear(asked, chosen) == chosen

\* Line 107: the device settles on a rate of its own.
SetRateNear ==
    /\ \E res \in Answers :
          /\ Checked("set_rate_near", "snd_pcm_hw_params_set_rate_near", res,
                     "set_buffer_time_near")
          /\ IF res < 0
             THEN UNCHANGED <<rate_hz, hw>>
             ELSE \E r \in DeviceRates :
                     /\ hw' = [hw EXCEPT !.rate = r]
                     /\ rate_hz' = RateAfterSetRateNear(rate_hz, r)
    /\ setup' = Append(setup, last_op')
    /\ UNCHANGED <<args, opt, optarg, device, frequency_hz, verbose, synthesized,
                   result, err, requested, bad_seen, opens, counted>>

\* Line 108.
SetBufferTimeNear ==
    /\ pc = "set_buffer_time_near"
    /\ Negotiate("set_buffer_time_near", "snd_pcm_hw_params_set_buffer_time_near",
                 "set_period_time_near")

\* Line 109.
SetPeriodTimeNear ==
    /\ pc = "set_period_time_near"
    /\ Negotiate("set_period_time_near", "snd_pcm_hw_params_set_period_time_near",
                 "hw_params")

\* Lines 110-114.
HwParams ==
    /\ pc = "hw_params"
    /\ Negotiate("hw_params", "snd_pcm_hw_params", "get_period_size")

\* Line 119: what the program holds in clip_size_frames after the call,
\* given the period size of the device.
FramesAfterGetPeriodSize(period_size) == period_size

\* Lines 118-119: the period size is read back from the device.
GetPeriodSize ==
    /\ \E res \in Answers :
          /\ Checked("get_period_size", "snd_pcm_hw_params_get_period_size", res,
                     "synth")
          /\ IF res < 0
             THEN UNCHANGED <<clip_size_frames, hw>>
             ELSE \E n \in 1..MaxPeriod :
                     /\ hw' = [hw EXCEPT !.period_size = n]
                     /\ clip_size_frames' = FramesAfterGetPeriodSize(n)
    /\ setup' = Append(setup, last_op')
    /\ UNCHANGED <<args, opt, optarg, parsed, clip_time_s, waves_per_clip, clip,
                   result, err, requested, bad_seen, opens, counted>>

\* ------------------------------------------- lines 120-137: the clip

\* Line 126.
ClipTime(frames, rate) == Frac(frames, rate)

\* Line 127.
WavesPerClip(freq, clip_time) == FMul(freq, clip_time)

\* Line 128.
RoundedFrequency(clip_time, waves) == FMul(clip_time, FInt(roundf(waves)))

\* Lines 120-137: the frequency is rounded and the clip is filled.
Synthesize ==
    /\ pc = "synth"
    /\ clip_time_s' = ClipTime(clip_size_frames, rate_hz)
    /\ waves_per_clip' = WavesPerClip(frequency_hz, clip_time_s')
    /\ frequency_hz' = RoundedFrequency(clip_time_s', waves_per_clip')
    /\ clip' = FillClip(clip_size_frames, rate_hz, frequency_hz')
    /\ pc' = "writei"
    /\ UNCHANGED <<args, opt, optarg, device, rate_hz, verbose, clip_size_frames,
                   result, err, exit_status, hw, requested, bad_seen, opens,
                   last_op, setup, counted>>

\* ------------------------------------------ lines 139-167: playback

\* AfterWrite with underrun taken for busy: the write is retried unprepared.
AfterWrite_UnderrunAsBusy(res) ==
    IF res >= 0 THEN "writei"
    ELSE IF res = -EAGAIN \/ res = -EPIPE THEN "writei"
    ELSE IF res = -ESTRPIPE THEN "resume"
    ELSE "abort"

\* AfterWrite with busy taken for underrun: the stream is prepared before
\* the write is retried.
AfterWrite_BusyAsUnderrun(res) ==
    IF res >= 0 THEN "writei"
    ELSE IF res = -EAGAIN \/ res = -EPIPE THEN "prepare_underrun"
    ELSE IF res = -ESTRPIPE THEN "resume"
    ELSE "abort"

\* AfterWrite with the synthesis inside the loop: after a write the device
\* accepted the clip is filled again.
AfterWrite_Resynthesize(res) ==
    IF res >= 0 THEN "synth"
    ELSE IF res = -EAGAIN THEN "writei"
    ELSE IF res = -EPIPE THEN "prepare_underrun"
    ELSE IF res = -ESTRPIPE THEN "resume"
    ELSE "abort"

\* Lines 141-166: where the program goes after snd_pcm_writei returned.
AfterWrite(res) ==
    IF res >= 0 THEN "writei"
    ELSE IF res = -EAGAIN THEN "writei"
    ELSE IF res = -EPIPE THEN "prepare_underrun"
    ELSE IF res = -ESTRPIPE THEN "resume"
    ELSE "abort"

\* AfterResume without the wait: try-again asks again at once.
AfterResume_NoWait(e) ==
    IF e >= 0 THEN "prepare_suspend"
    ELSE IF e = -EAGAIN THEN "resume"
    ELSE "abort"

\* AfterResume with every error taken for try-again.
AfterResume_RetryAll(e) ==
    IF e >= 0 THEN "prepare_suspend" ELSE "sleep"

\* AfterResume without the break of line 160: after a resume that
\* succeeded the program asks for a resume again.
AfterResume_NoBreak(e) ==
    IF e >= 0 THEN "resume"
    ELSE IF e = -EAGAIN THEN "sleep"
    ELSE "abort"

\* AfterResume with the wait taken on every answer but a fatal one: the
\* program waits a second after a resume that succeeded too.
AfterResume_WaitAfterSuccess(e) ==
    IF e >= 0 \/ e = -EAGAIN THEN "sleep" ELSE "abort"

\* Lines 152-160: where the program goes after snd_pcm_resume returned.
AfterResume(e) ==
    IF e >= 0 THEN "prepare_suspend"
    ELSE IF e = -EAGAIN THEN "sleep"
    ELSE "abort"

\* The position is next, or the process aborts.
GoTo(next) ==
    IF next = "abort"
    THEN Abort
    ELSE /\ pc' = next
         /\ UNCHANGED exit_status

\* What snd_pcm_writei may return: the frames it took, or an error.  A run
\* holds at most MaxUnderruns underruns and MaxSuspends suspensions.
WriteAnswers ==
    (0..clip_size_frames)
    \cup {r \in NegResults :
            /\ r = -EPIPE => tot.underruns < MaxUnderruns
            /\ r = -ESTRPIPE => tot.suspends < MaxSuspends}

\* The write goes on where the write before it stopped short.
WriteStart_Continued(previous, frames) ==
    IF previous > 0 /\ previous < frames THEN previous ELSE 0

\* Line 140: the index of the clip the write starts at, given the result of
\* the write before it and the length of the clip.
WriteStart(previous, frames) == 0

\* Line 140: the frames the write asks the device to take.
WriteFrames(start, frames) == frames

\* The frames the device has accepted, after the write w returned res.
\* When it accepted the first res frames of w they carry on the clip
\* repeated end to end if each of them is the frame that was due, and pos
\* is the index of the clip that is due next.  The frames are followed up
\* to the first underrun or suspension of the run, and no further.
Accepted(s, w, res) ==
    LET n == Len(w.buf)
        due(j) == w.buf[((s.pos + j) % n) + 1]
        ok == s.ok /\ \A j \in 0..(res - 1) : w.buf[w.start + j + 1] = due(j)
    IN  IF tot.underruns > 0 \/ tot.suspends > 0 \/ res \in {-EPIPE, -ESTRPIPE}
        THEN [pos |-> 0, ok |-> TRUE]
        ELSE IF res <= 0 THEN s
        ELSE [pos |-> IF ok THEN (s.pos + res) % n ELSE 0, ok |-> ok]

\* Line 140 and the branch of lines 141-166.
Writei ==
    /\ pc = "writei"
    /\ \E res \in WriteAnswers :
          /\ result' = res
          /\ last_op' = [op |-> "snd_pcm_writei", res |-> res, buf |-> clip,
                         start |-> WriteStart(result, clip_size_frames),
                         frames |-> WriteFrames(WriteStart(result, clip_size_frames),
                                                clip_size_frames)]
          /\ stream' = Accepted(stream, last_op', res)
          /\ tot' = [tot EXCEPT
                       !.underruns = @ + (IF res = -EPIPE THEN 1 ELSE 0),
                       !.suspends = @ + (IF res = -ESTRPIPE THEN 1 ELSE 0)]
          /\ GoTo(AfterWrite(res))
    /\ epi' = [prepares |-> 0, notyets |-> 0, sleeps |-> 0]
    /\ beat' = 1 - beat
    /\ UNCHANGED <<args, opt, optarg, parsed, synthesized, err, hw, requested,
                   bad_seen, opens, setup>>

\* CHECKED(snd_pcm_prepare, pcm) at position here; the loop starts over.
Prepare(here) ==
    /\ \E res \in Answers : Checked(here, "snd_pcm_prepare", res, "writei")
    /\ tot' = [tot EXCEPT !.prepares = @ + 1]
    /\ epi' = [epi EXCEPT !.prepares = @ + 1]
    /\ beat' = 1 - beat
    /\ UNCHANGED <<args, opt, optarg, parsed, synthesized, result, err, hw,
                   requested, bad_seen, opens, setup, stream>>

\* Line 147.
PrepareUnderrun ==
    /\ pc = "prepare_underrun"
    /\ Prepare("prepare_underrun")

\* What snd_pcm_resume may return; it answers try-again at most MaxNotYet
\* times in a row.
ResumeAnswers ==
    {0} \cup {r \in NegResults : r = -EAGAIN => epi.notyets < MaxNotYet}

\* Line 151 and the branch of lines 152-160.
Resume ==
    /\ pc = "resume"
    /\ \E e \in ResumeAnswers :
          /\ err' = e
          /\ last_op' = Call("snd_pcm_resume", e)
          /\ epi' = [epi EXCEPT !.notyets = @ + (IF e = -EAGAIN THEN 1 ELSE 0)]
          /\ GoTo(AfterResume(e))
    /\ beat' = 1 - beat
    /\ UNCHANGED <<args, opt, optarg, parsed, synthesized, result, hw, requested,
                   bad_seen, opens, tot, setup, stream>>

\* Lines 154-155.
Sleep ==
    /\ pc = "sleep"
    /\ last_op' = Call("sleep", 0)
    /\ epi' = [epi EXCEPT !.sleeps = @ + 1]
    /\ pc' = "resume"
    /\ beat' = 1 - beat
    /\ UNCHANGED <<args, opt, optarg, parsed, synthesized, result, err,
                   exit_status, hw, requested, bad_seen, opens, tot, setup, stream>>

\* Line 162.
PrepareSuspend ==
    /\ pc = "prepare_suspend"
    /\ Prepare("prepare_suspend")

\* ------------------------------------------------- the specification

Next ==
    \/ OptEnd
    \/ OptDevice
    \/ OptFrequency
    \/ OptHelp
    \/ OptRate
    \/ OptVerbose
    \/ OptUnknown
    \/ AttachOutput
    \/ Open
    \/ HwParamsAny
    \/ SetFormat
    \/ SetChannels
    \/ SetRateNear
    \/ SetBufferTimeNear
    \/ SetPeriodTimeNear
    \/ HwParams
    \/ GetPeriodSize
    \/ Synthesize
    \/ Writei
    \/ PrepareUnderrun
    \/ Resume
    \/ Sleep
    \/ PrepareSuspend

Spec == Init /\ [][Next]_vars

\* main() is one thread and every call it makes returns: snd_pcm_writei
\* blocks until the device has taken frames or reports an error,
\* snd_pcm_prepare and snd_pcm_resume answer, and sleep(1) ends.  So the
\* program always takes its next step, while it has one.
FairInit == Init /\ Len(args) <= MaxFairArgs

FairSpec == FairInit /\ [][Next]_vars /\ WF_vars(Next)

TypeOK ==
    /\ pc \in {"getopt", "attach", "open", "hw_params_any", "set_format",
               "set_channels", "set_rate_near", "set_buffer_time_near",
               "set_period_time_near", "hw_params", "get_period_size", "synth",
               "writei", "prepare_underrun", "resume", "sleep", "prepare_suspend",
               "exited"}
    /\ exit_status \in {<<>>, <<EXIT_SUCCESS>>, <<EXIT_FAILURE>>}
    /\ (pc = "exited") = (exit_status # <<>>)
    /\ verbose \in BOOLEAN
    /\ Len(clip) \in {0, clip_size_frames}

\* ------------------------------------------------------- the claims

Running == exit_status = <<>>

\* The clip has been synthesized (a period holds at least one frame).
ClipReady == Len(clip) > 0

\* C1, the steps: a write that reports underrun is followed by a prepare;
\* the prepare is the only one since that write; when it succeeds the
\* process runs on, at the write, with the clip unchanged; and every write
\* hands the device the clip, whole.
C1_Step ==
    /\ (pc = "writei" /\ result' = -EPIPE) =>
          /\ pc' = "prepare_underrun"
          /\ epi'.prepares = 0
          /\ Running'
    /\ pc = "prepare_underrun" =>
          /\ last_op'.op = "snd_pcm_prepare"
          /\ epi'.prepares = 1
          /\ tot'.prepares = tot.prepares + 1
          /\ last_op'.res >= 0 => (pc' = "writei" /\ Running' /\ clip' = clip)
    /\ pc = "writei" =>
          /\ last_op'.op = "snd_pcm_writei"
          /\ last_op'.buf = clip
          /\ last_op'.frames = clip_size_frames

\* C1, the counts: back at the write after an underrun, exactly one prepare
\* was issued since the write that reported it; and while no write has
\* reported a suspended stream, the device has seen as many prepares as
\* underruns (one underrun, one prepare in total).
C1_Counts ==
    /\ (pc = "writei" /\ result = -EPIPE) => (epi.prepares = 1 /\ Running)
    /\ (pc = "writei" /\ tot.suspends = 0) => tot.prepares = tot.underruns
    /\ (pc = "writei" /\ tot.suspends = 0 /\ tot.underruns = 1) => tot.prepares = 1

\* C1: whenever a write of the clip reports underrun, exactly one prepare
\* is issued before the next write; if that prepare succeeds the process
\* does not exit and the next device operation is a write of the same clip;
\* a device that reports underrun once and then accepts writes sees exactly
\* one prepare in total.
C1_UnderrunRecovery == [](C1_Counts) /\ [][C1_Step]_vars

\* C1, witness: one underrun, one prepare, and the write after it accepted.
C1_Witness ==
    /\ pc = "writei"
    /\ last_op.op = "snd_pcm_writei"
    /\ last_op.res = clip_size_frames
    /\ last_op.buf = clip
    /\ ClipReady
    /\ tot = [prepares |-> 1, underruns |-> 1, suspends |-> 0]

\* C2, the steps: a write that reports a suspended stream is followed by a
\* resume; a resume that answers try-again is followed by a wait, and the
\* wait by a resume; a resume that succeeds is followed, with no wait, by a
\* prepare; and when that prepare succeeds the process runs on at the write.
C2_Step ==
    /\ (pc = "writei" /\ result' = -ESTRPIPE) =>
          /\ pc' = "resume"
          /\ epi' = [prepares |-> 0, notyets |-> 0, sleeps |-> 0]
    /\ pc = "resume" =>
          /\ last_op'.op = "snd_pcm_resume"
          /\ epi'.sleeps = epi.sleeps
          /\ err' = -EAGAIN => (pc' = "sleep" /\ Running')
          /\ err' >= 0 => (pc' = "prepare_suspend" /\ Running')
    /\ pc = "sleep" =>
          /\ last_op'.op = "sleep"
          /\ epi'.sleeps = epi.sleeps + 1
          /\ epi'.notyets = epi.notyets
          /\ pc' = "resume"
    /\ pc = "prepare_suspend" =>
          /\ last_op'.op = "snd_pcm_prepare"
          /\ epi'.prepares = 1
          /\ epi'.sleeps = epi.sleeps
          /\ last_op'.res >= 0 => (pc' = "writei" /\ Running')

\* C2, the counts: when resume has succeeded after k try-again answers the
\* process has waited k times, and back at the write it has prepared once.
C2_Counts ==
    /\ pc = "sleep" => (epi.sleeps + 1 = epi.notyets /\ epi.prepares = 0)
    /\ pc = "resume" => (epi.sleeps = epi.notyets /\ epi.prepares = 0)
    /\ pc = "prepare_suspend" => (epi.sleeps = epi.notyets /\ epi.prepares = 0)
    /\ (pc = "writei" /\ result = -ESTRPIPE) =>
          (epi.sleeps = epi.notyets /\ epi.prepares = 1 /\ Running)

\* C2: whenever a write reports a suspended stream, resume is requested
\* repeatedly; if resume answers try-again k times and then succeeds, the
\* process performs exactly k one-second waits (one after each try-again,
\* none after the success), then exactly one prepare, then the next write,
\* without exiting.
C2_SuspendRecovery == [](C2_Counts) /\ [][C2_Step]_vars

\* C2, witness: resume answered try-again twice and then succeeded; the
\* process waited twice, prepared once and is back at the write.
C2_Witness ==
    /\ pc = "writei"
    /\ result = -ESTRPIPE
    /\ last_op = Call("snd_pcm_prepare", 0)
    /\ epi = [prepares |-> 1, notyets |-> 2, sleeps |-> 2]
    /\ Running

\* An error the program does not recover from.
Fatal(o) ==
    \/ o.op = "snd_pcm_writei" /\ o.res < 0 /\ o.res \notin {-EAGAIN, -EPIPE, -ESTRPIPE}
    \/ o.op = "snd_pcm_prepare" /\ o.res < 0
    \/ o.op = "snd_pcm_resume" /\ o.res < 0 /\ o.res # -EAGAIN

\* C3: a write error other than busy, underrun or suspended, any prepare
\* error, and any resume error other than try-again terminate the process
\* with the failure status, and an exited process takes no further step: no
\* write, prepare, resume or wait follows.
C3_FatalErrors ==
    /\ [](Fatal(last_op) => (pc = "exited" /\ exit_status = <<EXIT_FAILURE>>))
    /\ [][pc # "exited"]_vars

\* C3, witness: resume failed with an error other than try-again during a
\* suspension in which the process had already waited, and the process
\* has exited with the failure status.
C3_Witness ==
    /\ last_op.op = "snd_pcm_resume"
    /\ last_op.res = -EPIPE
    /\ epi.sleeps > 0
    /\ pc = "exited"
    /\ exit_status = <<EXIT_FAILURE>>

\* C4: the frequency the synthesizer uses to fill the clip is within
\* 0.5 / clip_duration of the requested frequency, for every period size
\* and rate the device negotiates.
C4_FrequencyDeviation ==
    ClipReady =>
        FLeq(FAbs(FSub(frequency_hz, requested.frequency_hz)),
             FDiv(Frac(1, 2), clip_time_s))

\* C5: the number of cycles the frequency used places in one clip,
\* frequency * period size / rate, is a whole number.
C5_WholeCycles ==
    ClipReady => IsInteger(FMul(frequency_hz, Frac(clip_size_frames, rate_hz)))

\* C6: for a requested frequency of 0 Hz the rounded cycle count is 0 and
\* every sample of the clip is 0, whatever the period size and the rate;
\* the process does not exit over it: it goes on to the write, and exits
\* later only when a library call fails.
C6_SilentClip ==
    (ClipReady /\ requested.frequency_hz = FInt(0)) =>
        /\ roundf(waves_per_clip) = 0
        /\ \A i \in 1..Len(clip) : clip[i] = 0
        /\ Len(clip) = hw.period_size
        /\ pc = "exited" => (last_op.res < 0 /\ exit_status = <<EXIT_FAILURE>>)
        /\ pc # "exited" => pc \in {"writei", "prepare_underrun", "resume", "sleep",
                                    "prepare_suspend"}

\* C6, witness: 0 Hz requested with -f 0, a clip of three frames, and the
\* device has accepted a write of it.
C6_Witness ==
    /\ requested.frequency_hz = FInt(0)
    /\ Len(clip) = 3
    /\ last_op.op = "snd_pcm_writei"
    /\ last_op.res = 3
    /\ last_op.buf = <<0, 0, 0>>
    /\ Running

\* C7: every sample of the clip lies in -32767 .. 32767; -32768 is never
\* stored.
C7_SampleRange == \A i \in 1..Len(clip) : clip[i] >= -32767 /\ clip[i] <= 32767

\* C7, witness: a clip that holds the sample of the sine's lowest point.
C7_Witness == ClipReady /\ \E i \in 1..Len(clip) : clip[i] = -32767

\* The playback loop has been entered.
LoopEntered ==
    \/ pc \in {"writei", "prepare_underrun", "resume", "sleep", "prepare_suspend"}
    \/ last_op.op \in {"snd_pcm_writei", "snd_pcm_prepare", "snd_pcm_resume", "sleep"}

\* C8: the process exits with status 0 only when getopt returned -h; once
\* the playback loop is entered the process is running or has exited with
\* the failure status after a fatal error of the device.
C8_ExitStatus ==
    /\ exit_status = <<EXIT_SUCCESS>> => (opt = "h" /\ ~LoopEntered /\ opens = 0)
    /\ LoopEntered =>
          \/ Running
          \/ exit_status = <<EXIT_FAILURE>> /\ Fatal(last_op)

\* C8, witness: the loop was entered, a write failed for good and the
\* process has exited with the failure status.
C8_Witness ==
    /\ LoopEntered
    /\ last_op.op = "snd_pcm_writei"
    /\ Fatal(last_op)
    /\ exit_status = <<EXIT_FAILURE>>

\* The argument of this option holds no number: strtod or strtol converts
\* nothing of it.
HoldsNoNumber(o) ==
    \/ o.opt = "f" /\ strtod(o.arg).endptr = 0
    \/ o.opt = "r" /\ strtol(o.arg).endptr = 0

\* The command line gives -f or -r an argument that holds no number: getopt
\* has returned it, or it is among the options still to come.
InvalidNumberGiven ==
    \/ bad_seen
    \/ \E i \in 1..Len(args) : HoldsNoNumber(args[i])

C10_NegotiatedValuesUsed ==
    /\ hw.rate # 0 => rate_hz = hw.rate
    /\ hw.period_size # 0 => clip_size_frames = hw.period_size
    /\ ClipReady =>
          /\ Len(clip) = hw.period_size
          /\ clip_time_s = Frac(hw.period_size, hw.rate)
          /\ \A i \in 1..Len(clip) :
                clip[i] = ToSample(SinQ24[Phase64(i - 1, hw.rate, frequency_hz) + 1],
                                   FullScale)

\* C10, witness: 1 Hz was asked for with -r, the device settled on 4 Hz and
\* a period of 3 frames, and the clip is filled.
C10_Witness ==
    /\ requested.rate_hz = 1
    /\ hw.rate = 4
    /\ hw.period_size = 3
    /\ ClipReady
    /\ clip_time_s = <<3, 4>>

\* The calls that open the device and negotiate with it, in the order of
\* lines 93-119.
NegotiationSteps ==
    <<"snd_pcm_open", "snd_pcm_hw_params_any", "snd_pcm_hw_params_set_format",
      "snd_pcm_hw_params_set_channels", "snd_pcm_hw_params_set_rate_near",
      "snd_pcm_hw_params_set_buffer_time_near",
      "snd_pcm_hw_params_set_period_time_near", "snd_pcm_hw_params",
      "snd_pcm_hw_params_get_period_size">>

\* The calls the program has made to open the device and to negotiate:
\* the calls of lines 88-119 but for snd_output_stdio_attach, which comes
\* first when it is made at all.
DeviceSetup ==
    IF setup # <<>> /\ setup[1].op = "snd_output_stdio_attach"
    THEN Tail(setup)
    ELSE setup

\* C11: when the device rejects the open or a negotiation step (any-params,
\* format, channels, rate, buffer time, period time, commit, period-size
\* read-back) the process exits with the failure status; no step is issued
\* a second time, and no write, prepare or resume is issued; the playback
\* loop is entered only after every one of the steps has succeeded.
C11_NegotiationFailure ==
    LET D == DeviceSetup
    IN  /\ Len(D) <= Len(NegotiationSteps)
        /\ \A i \in 1..Len(D) :
              /\ D[i].op = NegotiationSteps[i]
              /\ D[i].res < 0 =>
                    /\ i = Len(D)
                    /\ last_op = D[i]
                    /\ pc = "exited"
                    /\ exit_status = <<EXIT_FAILURE>>
                    /\ ~LoopEntered
                    /\ ~ClipReady
        /\ LoopEntered =>
              /\ Len(D) = Len(NegotiationSteps)
              /\ \A i \in 1..Len(D) : D[i].res >= 0

\* C11, witness: the device opened and took the format and the channels,
\* and rejected the rate; the process has exited with the failure status.
C11_Witness ==
    /\ Len(DeviceSetup) = 5
    /\ DeviceSetup[5].op = "snd_pcm_hw_params_set_rate_near"
    /\ DeviceSetup[5].res < 0
    /\ hw.open
    /\ pc = "exited"
    /\ exit_status = <<EXIT_FAILURE>>

\* C12: once the clip is ready, if no write, prepare or resume ever reports
\* a fatal error (and resume answers try-again finitely many times in a
\* row, as the device of this model does), the process never exits and a
\* write is issued infinitely often.
C12_PlaysForever ==
    [](~Fatal(last_op)) =>
        /\ [](ClipReady => Running)
        /\ <>ClipReady => []<><<Writei>>_vars

\* C12, witness: the stream underran and was suspended, the process
\* recovered from both, and the device has accepted the clip again.
C12_Witness ==
    /\ pc = "writei"
    /\ Running
    /\ tot.underruns = 1
    /\ tot.suspends = 1
    /\ last_op.op = "snd_pcm_writei"
    /\ last_op.res = clip_size_frames
    /\ ClipReady

\* The last call was a write and it reported busy.
BusyReported == last_op.op = "snd_pcm_writei" /\ last_op.res = -EAGAIN

\* C13, the steps: a write that reports busy leaves the process running at
\* the write, with no prepare, resume or wait counted; the call after a
\* busy write is a write of the same clip, whole; and a busy result that
\* follows a busy result leaves every variable of the program as it was,
\* so the program keeps no count that could limit the retries.
C13_Step ==
    /\ (pc = "writei" /\ result' = -EAGAIN) =>
          /\ pc' = "writei"
          /\ Running'
          /\ epi' = [prepares |-> 0, notyets |-> 0, sleeps |-> 0]
          /\ tot' = tot
          /\ clip' = clip
    /\ BusyReported =>
          /\ last_op'.op = "snd_pcm_writei"
          /\ last_op'.buf = last_op.buf
          /\ last_op'.start = last_op.start
          /\ last_op'.frames = last_op.frames
    /\ (BusyReported /\ last_op'.res = -EAGAIN) =>
          UNCHANGED <<pc, args, opt, optarg, parsed, synthesized, result, err,
                      exit_status>>

\* C13: when a write reports busy (-EAGAIN) the next device operation is
\* another write of the same clip: no prepare, no resume and no wait in
\* between, and the program counts no busy results, so nothing limits how
\* many in a row are retried.
C13_BusyRetry ==
    /\ [](BusyReported =>
            (pc = "writei" /\ Running
             /\ epi = [prepares |-> 0, notyets |-> 0, sleeps |-> 0]))
    /\ [][C13_Step]_vars

\* C13, witness: the process has recovered from an underrun and the write
\* after it reported busy; the process is at the write again.
C13_Witness ==
    /\ BusyReported
    /\ pc = "writei"
    /\ tot.underruns = 1
    /\ tot.prepares = 1
    /\ Running

\* This step is a one-second wait.
Waits == last_op'.op = "sleep" /\ beat' # beat

\* C14, the steps: a wait is taken only when the call before it was a
\* resume that answered try-again; the call after a write (accepted, busy,
\* underrun or suspended), after a prepare and after a resume that
\* succeeded is never a wait.
C14_Step ==
    /\ Waits =>
          /\ last_op = Call("snd_pcm_resume", -EAGAIN)
          /\ err = -EAGAIN
          /\ epi'.sleeps = epi.sleeps + 1
    /\ epi'.sleeps > epi.sleeps => Waits
    /\ last_op.op \in {"snd_pcm_writei", "snd_pcm_prepare", "sleep"} => ~Waits
    /\ (last_op.op = "snd_pcm_resume" /\ last_op.res >= 0) => ~Waits

\* C14: the process waits one second only inside the resume polling loop,
\* right after a resume that answered try-again; it never waits after a
\* write that was accepted, reported busy or reported underrun, after a
\* prepare, or after a resume that succeeded.
C14_WaitOnlyAfterNotYet ==
    /\ [](last_op.op = "sleep" =>
            (pc = "resume" /\ err = -EAGAIN /\ result = -ESTRPIPE
             /\ epi.sleeps = epi.notyets /\ epi.prepares = 0))
    /\ [](epi.sleeps <= epi.notyets)
    /\ [][C14_Step]_vars

\* C14, witness: during a suspension resume has answered try-again twice
\* and the process has just waited for the second time.
C14_Witness ==
    /\ last_op.op = "sleep"
    /\ epi.sleeps = 2
    /\ epi.notyets = 2
    /\ pc = "resume"
    /\ Running

\* C15: every write of the playback loop hands the device the whole clip:
\* it starts at sample index 0 and asks for exactly the period size in
\* frames, in every iteration, the retries after busy, after the recovery
\* from an underrun and after the recovery from a suspension included.
C15_WholeClipWritten ==
    /\ last_op.op = "snd_pcm_writei" =>
          /\ last_op.buf = clip
          /\ last_op.start = 0
          /\ last_op.frames = hw.period_size
          /\ Len(last_op.buf) = last_op.frames
    /\ pc = "writei" =>
          /\ WriteStart(result, clip_size_frames) = 0
          /\ WriteFrames(0, clip_size_frames) = hw.period_size
          /\ Len(clip) = hw.period_size

\* C15, witness: after the recovery from an underrun and from a
\* suspension a write handed over the clip of three frames from index 0,
\* and the device took two of them.
C15_Witness ==
    /\ last_op.op = "snd_pcm_writei"
    /\ last_op.start = 0
    /\ last_op.frames = 3
    /\ last_op.res = 2
    /\ tot = [prepares |-> 2, underruns |-> 1, suspends |-> 1]

\* C16, the steps: the clip is filled in the step that leaves the
\* synthesis and in no other; the synthesis is reached from the read-back
\* of the period size only; and once the playback loop is entered no step
\* changes the samples of the clip, its length, the rate, the frequency or
\* what the device negotiated.
C16_Step ==
    /\ clip' # clip => (pc = "synth" /\ clip = <<>> /\ pc' = "writei")
    /\ pc' = "synth" => (pc = "synth" \/ pc = "get_period_size")
    /\ LoopEntered =>
          UNCHANGED <<clip, clip_size_frames, clip_time_s, rate_hz, frequency_hz,
                      device, hw, setup>>

\* C16: the clip is synthesized exactly once, after the negotiation and
\* before the first write; no step of the playback loop changes the
\* contents of the clip, its length, or the parameters of the device.
C16_ClipFixed ==
    /\ [](pc = "synth" =>
            /\ clip = <<>>
            /\ ~LoopEntered
            /\ Len(DeviceSetup) = Len(NegotiationSteps)
            /\ last_op.op = "snd_pcm_hw_params_get_period_size"
            /\ last_op.res >= 0)
    /\ [](LoopEntered =>
            /\ ClipReady
            /\ clip = FillClip(hw.period_size, hw.rate, frequency_hz))
    /\ [][C16_Step]_vars

\* C16, witness: the process has written, recovered from an underrun and
\* from a suspension, and holds the clip of three frames it filled before
\* the first write.
C16_Witness ==
    /\ pc = "writei"
    /\ last_op = Call("snd_pcm_prepare", 0)
    /\ tot = [prepares |-> 2, underruns |-> 1, suspends |-> 1]
    /\ hw.period_size = 3
    /\ Len(clip) = 3
    /\ clip[2] # 0

\* The magnitude of the product of a sine in units of 2^-24 and the scale,
\* in units of 2^-12, rounded down.
Scaled12(q, scale) ==
    (Abs(q) \div 4096) * scale + ((Abs(q) % 4096) * scale) \div 4096

\* C17 as stated: for every sample index i in [0, period size) the stored
\* sample is sin(2 pi f i / rate) * 32767 rounded to the nearest integer,
\* not truncated toward zero.
C17_SamplesRounded ==
    \A i \in 1..Len(clip) :
        clip[i] = RoundToSample(sinf(i - 1, hw.rate, frequency_hz), FullScale)

\* C17, amended: for every sample index i in [0, period size) the stored
\* sample is sin(2 pi f i / rate) * 32767 truncated toward zero: it has the
\* sign of the scaled sine (or is 0), and its magnitude is the largest
\* integer not above the magnitude of the scaled sine.
C17_SamplesTruncated ==
    [](\A i \in 1..Len(clip) :
          LET q == sinf(i - 1, hw.rate, frequency_hz)
              x == Scaled12(q, FullScale)
          IN  /\ q >= 0 => clip[i] >= 0
              /\ q <= 0 => clip[i] <= 0
              /\ Abs(clip[i]) * 4096 <= x
              /\ x < (Abs(clip[i]) + 1) * 4096)

\* C17, witness: the default 440 Hz on a device of 4 Hz and a period of 3
\* frames: the second sample is -23169, the scaled sine of about -23169.8
\* truncated toward zero, where rounding gives -23170.
C17_Witness ==
    /\ clip = <<0, -23169, -32767>>
    /\ hw.rate = 4
    /\ RoundToSample(sinf(1, hw.rate, frequency_hz), FullScale) = -23170
    /\ pc = "writei"

\* C18: as long as no write has reported an underrun or a suspended
\* stream, the frames the device has accepted over the successful writes,
\* put end to end, are a prefix of the clip repeated end to end: after a
\* write of which the device took fewer frames than the clip holds, the
\* frames it did not take are delivered before the clip starts again at
\* index 0.
C18_SeamlessStream ==
    (tot.underruns = 0 /\ tot.suspends = 0) => stream.ok

\* The positions of main() at the calls of NegotiationSteps.
NegotiationPositions ==
    <<"open", "hw_params_any", "set_format", "set_channels", "set_rate_near",
      "set_buffer_time_near", "set_period_time_near", "hw_params",
      "get_period_size">>

\* getopt has returned -1: the options are done.
OptionsDone == opt = "-1"

\* snd_output_stdio_attach has failed.
AttachFailed ==
    \E i \in 1..Len(setup) :
        setup[i].op = "snd_output_stdio_attach" /\ setup[i].res < 0

\* The frequency of the clip, from the frequency asked for and what the
\* device negotiated.
ClipFrequency ==
    LET t == ClipTime(hw.period_size, hw.rate)
    IN  RoundedFrequency(t, WavesPerClip(requested.frequency_hz, t))

\* What the run has shown of itself so far follows from the rate and the
\* frequency of the command line and from the answers of the device alone:
\* the calls to the device and their order, the values handed to them, the
\* clip, where the run goes next and whether and how it has exited.  The
\* verbosity does not occur in any of it, so a run with -v and a run
\* without it that get the same answers from the device agree on all of it.
DeterminedByDevice ==
    LET D == DeviceSetup
        n == Len(D)
        ok == Running /\ ~LoopEntered
    IN  /\ n <= Len(NegotiationSteps)
        /\ \A i \in 1..n :
              /\ D[i].op = NegotiationSteps[i]
              /\ i < n => D[i].res >= 0
        /\ n = 0 => (ok /\ pc \in {"attach", "open"})
        /\ (n > 0 /\ D[n].res < 0) =>
              (exit_status = <<EXIT_FAILURE>> /\ ~LoopEntered /\ last_op = D[n])
        /\ (n > 0 /\ n < Len(NegotiationSteps) /\ D[n].res >= 0) =>
              (ok /\ pc = NegotiationPositions[n + 1])
        /\ (n = Len(NegotiationSteps) /\ D[n].res >= 0) =>
              \/ ok /\ pc = "synth"
              \/ /\ LoopEntered
                 /\ IF Fatal(last_op)
                    THEN exit_status = <<EXIT_FAILURE>>
                    ELSE /\ Running
                         /\ pc = CASE last_op.op = "snd_pcm_writei" -> AfterWrite(last_op.res)
                                   [] last_op.op = "snd_pcm_resume" -> AfterResume(last_op.res)
                                   [] last_op.op = "sleep" -> "resume"
                                   [] OTHER -> "writei"
        /\ n < 5 => rate_hz = requested.rate_hz
        /\ hw.open = (n > 0 /\ D[1].res >= 0)
        /\ (n >= 5 /\ D[5].res >= 0) = (hw.rate # 0)
        /\ hw.rate # 0 => rate_hz = hw.rate
        /\ ClipReady = (n = Len(NegotiationSteps) /\ D[n].res >= 0 /\ pc # "synth")
        /\ ClipReady => clip = FillClip(hw.period_size, hw.rate, ClipFrequency)
        /\ last_op.op = "snd_pcm_writei" =>
              /\ ClipReady
              /\ last_op.buf = clip
              /\ last_op.start = 0
              /\ last_op.frames = hw.period_size

====
